---- MODULE Spec2Model ----
(***************************************************************************)
(* The real-time voice pipeline of ai_chatbot_be: the socket.io            *)
(* VoiceHandler, the AIVoiceService it drives and the process-wide         *)
(* conversation history.  The repository holds two versions of both files  *)
(* (same path, src/websocket/voiceHandler.ts and                           *)
(* src/services/aiVoiceService.ts):                                        *)
(*   build = "gemini"  src/src/websocket/voiceHandler.ts with              *)
(*                     src/src/services/aiVoiceService.ts, the pair that   *)
(*                     src/server.ts wires up;                             *)
(*   build = "free"    src/unnamed/part_002 with src/unnamed/part_006.     *)
(* A behaviour runs one of the two; each handler of each version is an     *)
(* action.  A provider call (Deepgram, Gemini) is a suspension point: the  *)
(* run waits in pc "transcribing" or "generating" until the provider's     *)
(* answer, an input of the model, arrives.                                 *)
(***************************************************************************)
EXTENDS Integers, Sequences, FiniteSets, TLC

\* ---- bounds of the model ----
MaxRuns == 2        \* inbound socket messages handled in one behaviour
MaxEarlier == 5     \* exchanges already completed when the behaviour starts

\* ---- program constants ----
HistoryCap == 10        \* "Keep only last 10 messages"
MinAudioBytes == 1000   \* "Audio buffer too small"
MinTranscriptLen == 3   \* cleaned.length < 3

Sockets == {1, 2}
Builds == {"gemini", "free"}
Credentials == {"none", "invalid", "valid"}   \* socket.handshake.auth.token

\* ---- text ----
\* A string is a word (0: no word) with or without surrounding blanks and
\* with or without capital letters.  Words: r > 0 is what the caller of run
\* r said (or the answer made for it), -i what was said in the i-th earlier
\* exchange; the words of the denylist and one two-letter word follow.
ThankYou == 101
Thanks == 102
Bye == 103
Goodbye == 104
ShortWord == 105
Apology == 106   \* 'I apologize, I could not generate a response.'

RunWords == (1..MaxRuns) \cup {-i : i \in 1..MaxEarlier}
DenyWords == {ThankYou, Thanks, Bye, Goodbye}
Words == RunWords \cup DenyWords \cup {ShortWord, Apology}

Str(w, pad, caps) == [w |-> w, pad |-> pad, caps |-> caps]
EmptyStr == Str(0, FALSE, FALSE)     \* ''
BlankStr == Str(0, TRUE, FALSE)      \* ' '
Plain(w) == Str(w, FALSE, FALSE)

WordLen(w) ==
  CASE w = 0 -> 0
    [] w = ThankYou -> 9
    [] w = Thanks -> 6
    [] w = Bye -> 3
    [] w = Goodbye -> 7
    [] w = ShortWord -> 2
    [] OTHER -> 5

trim(t) == [t EXCEPT !.pad = FALSE]
toLowerCase(t) == [t EXCEPT !.caps = FALSE]
length(t) == WordLen(t.w) + (IF t.pad THEN 2 ELSE 0) - (IF t.pad /\ t.w = 0 THEN 1 ELSE 0)
Falsy(t) == t = EmptyStr             \* !s for a string s
hallucinations == {Plain(w) : w \in DenyWords}

\* ---- conversation history ----
Msg(role, content) == [role |-> role, content |-> content]

\* this.conversationHistory.slice(-10), applied when length > 10
KeepLast(h) ==
  IF Len(h) > HistoryCap THEN SubSeq(h, Len(h) - HistoryCap + 1, Len(h)) ELSE h

AssistantRole(b) == IF b = "gemini" THEN "model" ELSE "assistant"

\* Empty, one exchange short of the cap, and at the cap.
EarlierCounts == {0, MaxEarlier - 1, MaxEarlier}

\* The history that k completed exchanges, one after the other, leave.
RECURSIVE EarlierHistory(_, _)
EarlierHistory(b, k) ==
  IF k = 0 THEN << >>
  ELSE KeepLast(EarlierHistory(b, k - 1)
                \o << Msg("user", Plain(-k)), Msg(AssistantRole(b), Plain(-k)) >>)

\* ---- events sent to a client socket ----
Event(name, arg, text) == [name |-> name, arg |-> arg, text |-> text]
Status(s) == Event("voice:status", s, EmptyStr)
TextEv(type, t) == Event("voice:text", type, t)
AudioEv == Event("voice:audio", "response", EmptyStr)
ErrorEv == Event("voice:error", "error", EmptyStr)

VARIABLES
  build,                \* which version of the two files runs
  keysConfigured,       \* DEEPGRAM_API_KEY and GEMINI_API_KEY are set
  conversationHistory,  \* AIVoiceService.conversationHistory
  conn,                 \* per socket: "new", "connected", "refused" or "disconnected"
  cred,                 \* per socket: the credential shown at handshake
  welcomed,             \* per socket: voice:connected was emitted to it
  emitted,              \* per inbound message: the events its handler emitted
                        \* to the socket of the message, in order
  run,                  \* per inbound message: the handler's position and data
  nextId,               \* id of the next inbound message
  held,                 \* the array a caller of getHistory() holds, and the body of GET /history
  calls,                \* the calls collection and the requests of the call controller
  guard,                \* a request in the protect middleware
  conversation,         \* the conversations collection and the requests of POST /api/chat
  chat                  \* POST /api/chat: the message, getAIResponse's position, the reply

vars == << conversation, guard, calls, held, build, keysConfigured, conversationHistory, conn, cred, welcomed, emitted, run,
          nextId, chat >>

\* Client 1 may show any credential and sends messages of every kind.
\* Client 2 is a second, authenticated client: it holds a token that verifies,
\* connects once client 1 is an authenticated connection, and sends at most
\* MaxOnSecond messages, all of them voice:text.
MaxOnSecond == 1
Speakers == {1}       \* the sockets that send voice:audio and voice:control
Presents(s) == IF s = 1 THEN Credentials ELSE {"valid"}
Arrives(s) == conn[s] = "new" /\ (s = 1 \/ (conn[1] = "connected" /\ cred[1] = "valid"))
\* a connection that takes no message any more once a run on it has failed
AcceptsUntilError(s) ==
  /\ conn[s] = "connected"
  /\ s = 1 \/ Cardinality({r \in 1..MaxRuns : run[r].sock = s}) < MaxOnSecond
  /\ \A r \in 1..MaxRuns : run[r].sock = s => run[r].outcome # "failed"

\* The handlers of socket s run for the next message: they stay registered
\* from the connection on, whatever the earlier runs did.
Accepts(s) ==
  /\ conn[s] = "connected"
  /\ s = 1 \/ Cardinality({r \in 1..MaxRuns : run[r].sock = s}) < MaxOnSecond

\* ---- what getHistory() hands out ----
\* Nothing was handed out yet. ref tells which array the caller holds: "store"
\* is the very array the service's field refers to, "own" an array the field
\* refers to no longer, whose elements are elems. first is what the array held
\* when it was returned; body is the history sent by GET /history.
NoHeld == [ref |-> "none", elems |-> << >>, first |-> << >>, pushed |-> FALSE,
           sent |-> FALSE, body |-> << >>]

\* ---- the call controller ----
MaxRequests == 2                  \* requests to the call routes in a behaviour
OwnCall == 1                      \* a call of the authenticated user
OtherCall == 2                    \* a call of another user
CallIds == 1..(2 + MaxRequests)   \* and the ids uuidv4() gives to new calls
Caller == 1                       \* req.user.id as protect sets it
Stranger == 2                     \* the owner of OtherCall

\* a document of the calls collection (models/Call.ts); endTime is the request
\* that set it, 0 while unset
NoMetadata == [totalMessages |-> 0, userMessages |-> 0, aiMessages |-> 0]
NoCall == [exists |-> FALSE, userId |-> 0, status |-> "none", endTime |-> 0,
           messages |-> << >>, metadata |-> NoMetadata]
ActiveCall(u) == [NoCall EXCEPT !.exists = TRUE, !.userId = u, !.status = "active"]
\* a request: its handler, req.user.id, req.params.callId, whether the body
\* has the text or file, the document findOne returned (loaded), the same
\* document as the handler changed it (doc), and the response
NoRequest == [op |-> "none", user |-> 0, call |-> 0, has |-> FALSE, pc |-> "idle",
              seen |-> "none", loaded |-> NoCall, doc |-> NoCall, code |-> 0]
NoCalls == [db |-> [c \in CallIds |-> NoCall],
            req |-> [q \in 1..MaxRequests |-> NoRequest], next |-> 1]

\* ---- the protect middleware ----
\* A request that has not reached protect: its Authorization header as the
\* words a blank separates, its cookie token, the token protect took from
\* them, whether JWT_SECRET is set, what User.findById answered, the responses
\* sent, the calls of next(), and req.user.
NoToken == [signed |-> FALSE, expired |-> FALSE, id |-> 0]
IdleGuard == [pc |-> "idle", authorization |-> << >>, cookie |-> NoToken,
              token |-> NoToken, secret |-> FALSE, found |-> "none",
              sent |-> << >>, next |-> 0, user |-> 0]

\* ---- the conversations of POST /api/chat ----
MaxPosts == 2      \* requests to POST /api/chat in a behaviour
MaxStored == 4     \* exchanges the stored conversation holds at the start
\* A request: req.body.message, whether req.body.conversationId is sent, the
\* messages of the document the handler holds, how many of them were loaded,
\* whether the document is new, the context and the prompt getAIResponse
\* built, the reply, and the status of the response.
NoPost == [pc |-> "idle", message |-> EmptyStr, withId |-> FALSE, messages |-> << >>,
           loaded |-> 0, isNew |-> FALSE, context |-> << >>, prompt |-> << >>,
           reply |-> EmptyStr, code |-> 0]
\* stored: the messages of the conversation whose id the client sends, when
\* it exists; created: the conversation inserted by each request
NoPosts == [exists |-> FALSE, stored |-> << >>,
            created |-> [q \in 1..MaxPosts |-> << >>],
            req |-> [q \in 1..MaxPosts |-> NoPost], next |-> 1]

\* ---- POST /api/chat ----
\* replies of the chat endpoint
Reply(kind, num, den) == [kind |-> kind, num |-> num, den |-> den]
Canned(kind) == Reply(kind, 0, 1)
NoReply == Canned("none")

\* No chat request yet.
IdleChat == [pc |-> "idle", message |-> << >>, geminiKey |-> FALSE,
             fallback |-> FALSE, reply |-> NoReply,
             outcome |-> "none",   \* how model.generateContent settled
             saved |-> TRUE,       \* FALSE once a database operation failed
             code |-> 0]           \* the status of the response, 0 before it

\* ---- responses of the voice controller ----
\* res.status(code).json({ error, message })
ErrorResponse == [sent |-> 1, body |-> "error", transcription |-> EmptyStr,
                  response |-> EmptyStr]
\* a voice-call response that leaves the X-Response-Text header out
CallResponseWithoutText(text, response) ==
  [sent |-> 1, body |-> "audio", transcription |-> text, response |-> EmptyStr]
\* res.set({ X-Transcription, X-Response-Text }); res.send(result.audioBuffer)
CallResponse(text, response) ==
  [sent |-> 1, body |-> "audio", transcription |-> text, response |-> response]
\* res.json({ success: true, text })
TranscribeResponse(text) ==
  [sent |-> 1, body |-> "text", transcription |-> text, response |-> EmptyStr]
NoResponse == [sent |-> 0, body |-> "none", transcription |-> EmptyStr,
               response |-> EmptyStr]

\* message.data of voice:audio: missing, or a payload of so many decoded bytes
NoAudio == [present |-> FALSE, bytes |-> 0]

IdleRun == [sock |-> 0, type |-> "none", pc |-> "idle", userText |-> EmptyStr,
            context |-> << >>, stt |-> FALSE, llm |-> FALSE, outcome |-> "none",
            failedAt |-> "none", status |-> 0, cmd |-> "none",
            sttError |-> FALSE, llmResult |-> "none",
            audio |-> NoAudio,   \* the payload, while transcribeAudio holds it
            res |-> NoResponse]  \* the HTTP response sent for the request

Init ==
  /\ build \in Builds
  /\ keysConfigured \in BOOLEAN
  /\ \E k \in EarlierCounts : conversationHistory = EarlierHistory(build, k)
  /\ conn = [s \in Sockets |-> "new"]
  /\ cred = [s \in Sockets |-> "none"]
  /\ welcomed = [s \in Sockets |-> FALSE]
  /\ emitted = [r \in 1..MaxRuns |-> << >>]
  /\ run = [r \in 1..MaxRuns |-> IdleRun]
  /\ nextId = 1
  /\ held = NoHeld
  /\ calls = NoCalls
  /\ guard = IdleGuard
  /\ conversation = NoPosts
  /\ chat = IdleChat

\* socket.emit without the check of the connection: the events reach the
\* client whatever the state of its socket
EmitToAnySocket(r, evs) == emitted' = [emitted EXCEPT ![r] = @ \o evs]

\* socket.emit of a list of events, in order, by the handler of message r.
\* The handler of a new message runs on a connected socket; a handler that
\* resumes after its socket was disconnected emits into a closed connection,
\* which discards the packets and raises nothing.
Emit(r, evs) ==
  emitted' = [emitted EXCEPT ![r] =
                IF run[r].sock \in Sockets /\ conn[run[r].sock] = "disconnected"
                  THEN @ ELSE @ \o evs]

\* a history kept per connection: of the messages of this behaviour, only
\* those of the runs of socket s
ServiceHistoryPerSocket(s) ==
  SelectSeq(conversationHistory,
            LAMBDA m : m.content.w \notin 1..MaxRuns \/ run[m.content.w].sock = s)

\* getAIVoiceService().conversationHistory as the handler of a message of
\* socket s reads it: there is one service instance, hence one history.
ServiceHistory(s) == conversationHistory

\* ---- connection handshake ----
\* part_002: io.use() verifies the token before 'connection' fires.
FreeHandshake(s, c) ==
  /\ build = "free"
  /\ Arrives(s)
  /\ cred' = [cred EXCEPT ![s] = c]
  /\ IF c = "valid"
       THEN /\ conn' = [conn EXCEPT ![s] = "connected"]
            /\ welcomed' = [welcomed EXCEPT ![s] = TRUE]
       ELSE /\ conn' = [conn EXCEPT ![s] = "refused"]
            /\ UNCHANGED welcomed
  /\ UNCHANGED << conversation, guard, calls, held, chat, build, keysConfigured, conversationHistory, emitted, run, nextId >>

\* voiceHandler.ts: initialize() registers 'connection' only; no io.use().
GeminiHandshake(s, c) ==
  /\ build = "gemini"
  /\ Arrives(s)
  /\ cred' = [cred EXCEPT ![s] = c]
  /\ conn' = [conn EXCEPT ![s] = "connected"]
  /\ welcomed' = [welcomed EXCEPT ![s] = TRUE]
  /\ UNCHANGED << conversation, guard, calls, held, chat, build, keysConfigured, conversationHistory, emitted, run, nextId >>

\* ---- inputs ----
AudioSizes == {0, MinAudioBytes - 1, MinAudioBytes}       \* decoded byte length
AudioInputs == {NoAudio} \cup {[present |-> TRUE, bytes |-> n] : n \in AudioSizes}
TextInputs(r) == {EmptyStr, Plain(r)}                     \* message.data of voice:text
Commands == {"start", "stop", "mute", "unmute", "pause"}  \* message.data of voice:control

\* What the recogniser makes of noise in message r: a phrase of the denylist,
\* padded and capitalised, for odd r and a word of two characters for even r.
Misheard(r) == IF r % 2 = 1 THEN Str(Thanks, TRUE, TRUE) ELSE Plain(ShortWord)

\* What Deepgram answers: an error, or a transcript.
SttOutcomes(r) ==
  {[error |-> TRUE, transcript |-> EmptyStr]}
  \cup {[error |-> FALSE, transcript |-> t] :
          t \in {EmptyStr, Str(r, TRUE, FALSE), Misheard(r)}}

\* What Gemini answers: an error, or a text.
LlmOutcomes(r) ==
  {[error |-> TRUE, text |-> EmptyStr]}
  \cup {[error |-> FALSE, text |-> t] :
          t \in {EmptyStr, Plain(r)}}

\* How the generation provider answered: with an error, an empty text or a text.
LlmResult(o) == IF o.error THEN "error" ELSE IF o.text = EmptyStr THEN "empty" ELSE "text"

NewRun(s, type) == [IdleRun EXCEPT !.sock = s, !.type = type]
\* A handler that returned holds no context any more.
Failed(rec, stage) ==
  [rec EXCEPT !.pc = "done", !.outcome = "failed", !.failedAt = stage,
              !.context = << >>, !.audio = NoAudio]
Succeeded(rec) ==
  [rec EXCEPT !.pc = "done", !.outcome = "ok", !.context = << >>, !.audio = NoAudio]

\* socket.on('disconnect'): the client of socket s went away. The handler logs
\* the event; it cancels no run and touches nothing of the service.
Disconnect(s) ==
  /\ conn[s] = "connected"
  /\ conn' = [conn EXCEPT ![s] = "disconnected"]
  /\ UNCHANGED << conversation, guard, calls, held, chat, build, keysConfigured, conversationHistory, cred, welcomed, emitted,
                  run, nextId >>

\* ==== build "gemini": voiceHandler.ts + aiVoiceService.ts ====

\* transcribeAudio, after the provider returned: the text it returns, or a throw
GeminiTranscriptRejected(o) ==
  \/ o.error
  \/ Falsy(trim(o.transcript))
  \/ length(toLowerCase(trim(o.transcript))) < MinTranscriptLen
  \/ toLowerCase(trim(o.transcript)) \in hallucinations

\* generateResponse, after the provider returned: throw on error or empty text
GeminiResponseRejected(o) == o.error \/ Falsy(trim(o.text))

\* processVoiceCall reporting completion on its failure path as well
GeminiPipelineFailureCompletes == << ErrorEv, Status("complete"), ErrorEv >>

\* The events of a failure inside processVoiceCall: its catch emits voice:error
\* and rethrows, and the catch of handleAudioMessage emits voice:error again.
GeminiPipelineFailure == << ErrorEv, ErrorEv >>

\* socket.on('voice:audio'): handleAudioMessage up to the first await that suspends
GeminiAudioMessage(s, d) ==
  /\ build = "gemini"
  /\ Accepts(s)
  /\ nextId <= MaxRuns
  /\ nextId' = nextId + 1
  /\ LET r == nextId
         rec == NewRun(s, "audio")
     IN
     IF ~d.present \/ d.bytes = 0 THEN
          /\ Emit(r, << ErrorEv >>)
          /\ run' = [run EXCEPT ![r] = Failed(rec, "validation")]
     ELSE IF ~keysConfigured THEN
          /\ Emit(r, << ErrorEv >>)
          /\ run' = [run EXCEPT ![r] = Failed(rec, "service")]
     ELSE IF d.bytes < MinAudioBytes THEN
          /\ Emit(r, << Status("processing") >> \o GeminiPipelineFailure)
          /\ run' = [run EXCEPT ![r] = Failed(rec, "transcription")]
     ELSE
          /\ Emit(r, << Status("processing") >>)
          /\ run' = [run EXCEPT ![r] = [rec EXCEPT !.pc = "transcribing", !.stt = TRUE,
                                                   !.audio = d]]
  /\ UNCHANGED << conversation, guard, calls, held, chat, build, keysConfigured, conversationHistory, conn, cred, welcomed >>

\* processVoiceCall resumes when deepgram.listen.prerecorded.transcribeFile settles
GeminiTranscribeReturn(r, o) ==
  /\ build = "gemini"
  /\ run[r].pc = "transcribing"
  /\ LET s == run[r].sock IN
     IF GeminiTranscriptRejected(o) THEN
          /\ Emit(r, GeminiPipelineFailure)
          /\ run' = [run EXCEPT ![r] = Failed([@ EXCEPT !.sttError = o.error], "transcription")]
     ELSE
          /\ Emit(r, << TextEv("transcription", trim(o.transcript)),
                        Status("thinking") >>)
          /\ run' = [run EXCEPT ![r] = [@ EXCEPT !.pc = "generating",
                                                 !.audio = NoAudio,
                                                 !.userText = trim(o.transcript),
                                                 !.context = ServiceHistory(s),
                                                 !.llm = TRUE]]
  /\ UNCHANGED << conversation, guard, calls, held, chat, build, keysConfigured, conversationHistory, conn, cred, welcomed, nextId >>

\* socket.on('voice:text'): handleTextMessage up to chat.sendMessage
GeminiTextMessage(s, t) ==
  /\ build = "gemini"
  /\ Accepts(s)
  /\ nextId <= MaxRuns
  /\ nextId' = nextId + 1
  /\ LET r == nextId
         rec == NewRun(s, "text")
     IN
     IF Falsy(t) THEN
          /\ Emit(r, << ErrorEv >>)
          /\ run' = [run EXCEPT ![r] = Failed(rec, "validation")]
     ELSE IF ~keysConfigured THEN
          /\ Emit(r, << Status("processing"), ErrorEv >>)
          /\ run' = [run EXCEPT ![r] = Failed(rec, "service")]
     ELSE
          /\ Emit(r, << Status("processing") >>)
          /\ run' = [run EXCEPT ![r] = [rec EXCEPT !.pc = "generating",
                                                   !.userText = t,
                                                   !.context = ServiceHistory(s),
                                                   !.llm = TRUE]]
  /\ UNCHANGED << conversation, guard, calls, held, chat, build, keysConfigured, conversationHistory, conn, cred, welcomed >>

\* generateResponse resumes when chat.sendMessage settles, and its caller after it
GeminiGenerateReturn(r, o) ==
  /\ build = "gemini"
  /\ run[r].pc = "generating"
  /\ LET s == run[r].sock IN
     IF GeminiResponseRejected(o) THEN
          /\ Emit(r, IF run[r].type = "audio" THEN GeminiPipelineFailure
                                              ELSE << ErrorEv >>)
          /\ run' = [run EXCEPT ![r] = Failed([@ EXCEPT !.llmResult = LlmResult(o)], "generation")]
          /\ UNCHANGED conversationHistory
     ELSE
          /\ conversationHistory' =
               KeepLast(conversationHistory
                        \o << Msg("user", run[r].userText), Msg("model", o.text) >>)
          /\ Emit(r, << TextEv("response", trim(o.text)), Status("complete") >>)
          /\ run' = [run EXCEPT ![r] = Succeeded([@ EXCEPT !.llmResult = LlmResult(o)])]
  /\ UNCHANGED << conversation, guard, calls, held, chat, build, keysConfigured, conn, cred, welcomed, nextId >>

\* the switch with the break after case 'mute' missing
GeminiControlStatusFallsThrough(cmd) ==
  CASE cmd = "start" -> << "listening" >>
    [] cmd = "stop" -> << "stopped" >>
    [] cmd = "mute" -> << "muted", "unmuted" >>
    [] cmd = "unmute" -> << "unmuted" >>
    [] OTHER -> << >>

\* socket.on('voice:control'): handleControlMessage
GeminiControlStatus(cmd) ==
  CASE cmd = "start" -> << "listening" >>
    [] cmd = "stop" -> << "stopped" >>
    [] cmd = "mute" -> << "muted" >>
    [] cmd = "unmute" -> << "unmuted" >>
    [] OTHER -> << >>

GeminiControlMessage(s, cmd) ==
  /\ build = "gemini"
  /\ Accepts(s)
  /\ nextId <= MaxRuns
  /\ nextId' = nextId + 1
  /\ Emit(nextId, [i \in 1..Len(GeminiControlStatus(cmd)) |->
                     Status(GeminiControlStatus(cmd)[i])])
  /\ run' = [run EXCEPT ![nextId] = Succeeded([NewRun(s, "control") EXCEPT !.cmd = cmd])]
  /\ UNCHANGED << conversation, guard, calls, held, chat, build, keysConfigured, conversationHistory, conn, cred, welcomed >>

\* ==== build "free": part_002 (voiceHandler.ts) + part_006 (aiVoiceService.ts) ====

\* transcribeAudio, after the provider returned: throws on error or no transcript
FreeTranscriptRejected(o) == o.error \/ Falsy(o.transcript)

\* response.text() || 'I apologize, I could not generate a response.'
FreeAiResponse(o) == IF Falsy(o.text) THEN Plain(Apology) ELSE o.text

\* socket.on('voice:audio'): handleAudioMessage up to transcribeFile
FreeAudioMessage(s, d) ==
  /\ build = "free"
  /\ Accepts(s)
  /\ nextId <= MaxRuns
  /\ nextId' = nextId + 1
  /\ LET r == nextId
         rec == NewRun(s, "audio")
     IN
     IF ~keysConfigured THEN
          /\ Emit(r, << Status("processing"), ErrorEv >>)
          /\ run' = [run EXCEPT ![r] = Failed(rec, "service")]
     ELSE
          /\ Emit(r, << Status("processing") >>)
          /\ run' = [run EXCEPT ![r] = [rec EXCEPT !.pc = "transcribing", !.stt = TRUE,
                                                   !.audio = d]]
  /\ UNCHANGED << conversation, guard, calls, held, chat, build, keysConfigured, conversationHistory, conn, cred, welcomed >>

\* processVoiceCall resumes when transcribeFile settles; processWithAI pushes
\* the user message and suspends on model.generateContent
FreeTranscribeReturn(r, o) ==
  /\ build = "free"
  /\ run[r].pc = "transcribing"
  /\ IF FreeTranscriptRejected(o) THEN
          /\ Emit(r, << ErrorEv >>)
          /\ run' = [run EXCEPT ![r] = Failed([@ EXCEPT !.sttError = o.error], "transcription")]
          /\ UNCHANGED conversationHistory
     ELSE
          /\ conversationHistory' =
               conversationHistory \o << Msg("user", o.transcript) >>
          /\ run' = [run EXCEPT ![r] = [@ EXCEPT !.pc = "generating",
                                                 !.audio = NoAudio,
                                                 !.userText = o.transcript,
                                                 !.context = ServiceHistory(run[r].sock)
                                                    \o << Msg("user", o.transcript) >>,
                                                 !.llm = TRUE]]
          /\ UNCHANGED emitted
  /\ UNCHANGED << conversation, guard, calls, held, chat, build, keysConfigured, conn, cred, welcomed, nextId >>

\* socket.on('voice:text'): handleTextMessage up to model.generateContent
FreeTextMessage(s, t) ==
  /\ build = "free"
  /\ Accepts(s)
  /\ nextId <= MaxRuns
  /\ nextId' = nextId + 1
  /\ LET r == nextId
         rec == NewRun(s, "text")
     IN
     IF ~keysConfigured THEN
          /\ Emit(r, << Status("processing"), ErrorEv >>)
          /\ run' = [run EXCEPT ![r] = Failed(rec, "service")]
          /\ UNCHANGED conversationHistory
     ELSE
          /\ Emit(r, << Status("processing") >>)
          /\ conversationHistory' = conversationHistory \o << Msg("user", t) >>
          /\ run' = [run EXCEPT ![r] = [rec EXCEPT !.pc = "generating",
                                                   !.userText = t,
                                                   !.context = ServiceHistory(s)
                                                      \o << Msg("user", t) >>,
                                                   !.llm = TRUE]]
  /\ UNCHANGED << conversation, guard, calls, held, chat, build, keysConfigured, conn, cred, welcomed >>

\* processWithAI resumes when generateContent settles, and its caller after it
FreeGenerateReturn(r, o) ==
  /\ build = "free"
  /\ run[r].pc = "generating"
  /\ IF o.error THEN
          /\ Emit(r, << ErrorEv >>)
          /\ run' = [run EXCEPT ![r] = Failed([@ EXCEPT !.llmResult = LlmResult(o)], "generation")]
          /\ UNCHANGED conversationHistory
     ELSE
          /\ conversationHistory' =
               KeepLast(conversationHistory \o << Msg("assistant", FreeAiResponse(o)) >>)
          /\ Emit(r, (IF run[r].type = "audio"
                        THEN << TextEv("transcription", run[r].userText) >>
                        ELSE << >>)
                     \o << TextEv("response", FreeAiResponse(o)), AudioEv,
                           Status("complete") >>)
          /\ run' = [run EXCEPT ![r] = Succeeded([@ EXCEPT !.llmResult = LlmResult(o)])]
  /\ UNCHANGED << conversation, guard, calls, held, chat, build, keysConfigured, conn, cred, welcomed, nextId >>

\* socket.on('voice:control'): handleControlMessage
FreeControlStatus(cmd) ==
  CASE cmd = "start" -> "ready"
    [] cmd = "stop" -> "stopped"
    [] cmd = "mute" -> "muted"
    [] cmd = "unmute" -> "unmuted"
    [] OTHER -> "unknown"

FreeControlMessage(s, cmd) ==
  /\ build = "free"
  /\ Accepts(s)
  /\ nextId <= MaxRuns
  /\ nextId' = nextId + 1
  /\ Emit(nextId, << Status(FreeControlStatus(cmd)) >>)
  /\ run' = [run EXCEPT ![nextId] = Succeeded([NewRun(s, "control") EXCEPT !.cmd = cmd])]
  /\ UNCHANGED << conversation, guard, calls, held, chat, build, keysConfigured, conversationHistory, conn, cred, welcomed >>

\* ==== HTTP surface: part_005 (voiceController.ts) ====

\* clearHistory() sparing the history while a pipeline run is in flight
clearHistoryWhenIdle ==
  IF \E r \in 1..MaxRuns : run[r].pc \in {"transcribing", "generating"}
    THEN conversationHistory ELSE << >>

\* clearHistory(): this.conversationHistory = []
clearHistory == << >>

\* DELETE /api/voice/history: getAIVoiceService().clearHistory(), then res.json;
\* a throw of getAIVoiceService() is answered with status 500
handleClearHistory ==
  /\ nextId <= MaxRuns
  /\ nextId' = nextId + 1
  /\ IF keysConfigured
       THEN /\ conversationHistory' = clearHistory
            /\ run' = [run EXCEPT ![nextId] =
                         Succeeded([NewRun(0, "clear") EXCEPT !.status = 200])]
       ELSE /\ UNCHANGED conversationHistory
            /\ run' = [run EXCEPT ![nextId] =
                         Failed([NewRun(0, "clear") EXCEPT !.status = 500], "service")]
  /\ UNCHANGED << conversation, guard, calls, held, chat, build, keysConfigured, conn, cred, welcomed, emitted >>


\* The handler of request r answers with an error payload and status code.
Refused(rec, code, stage) ==
  [Failed(rec, stage) EXCEPT !.status = code, !.res = ErrorResponse]

\* POST /api/voice/call: handleVoiceCall up to the first provider call.
\* aiVoiceService.ts: processVoiceCall(audioBuffer, voice) takes the voice name
\* for the socket; socket.emit throws a TypeError in the try and again in the
\* catch, before any stage.
handleVoiceCall(d) ==
  /\ nextId <= MaxRuns
  /\ nextId' = nextId + 1
  /\ LET r == nextId
         rec == NewRun(0, "call")
     IN
     IF ~d.present THEN
          run' = [run EXCEPT ![r] = Refused(rec, 400, "validation")]
     ELSE IF ~keysConfigured THEN
          run' = [run EXCEPT ![r] = Refused(rec, 500, "service")]
     ELSE IF build = "gemini" THEN
          run' = [run EXCEPT ![r] = Refused(rec, 500, "service")]
     ELSE
          run' = [run EXCEPT ![r] = [rec EXCEPT !.pc = "transcribing", !.stt = TRUE,
                                                !.audio = d]]
  /\ UNCHANGED << conversation, guard, calls, held, chat, build, keysConfigured, conversationHistory, conn, cred, welcomed,
                  emitted >>

\* part_006 processVoiceCall resumes when transcribeFile settles; processWithAI
\* pushes the user message and suspends on model.generateContent
VoiceCallTranscribeReturn(r, o) ==
  /\ run[r].type = "call"
  /\ run[r].pc = "transcribing"
  /\ IF FreeTranscriptRejected(o) THEN
          /\ run' = [run EXCEPT ![r] = Refused([@ EXCEPT !.sttError = o.error], 500,
                                               "transcription")]
          /\ UNCHANGED conversationHistory
     ELSE
          /\ conversationHistory' =
               conversationHistory \o << Msg("user", o.transcript) >>
          /\ run' = [run EXCEPT ![r] = [@ EXCEPT !.pc = "generating",
                                                 !.audio = NoAudio,
                                                 !.userText = o.transcript,
                                                 !.context = conversationHistory',
                                                 !.llm = TRUE]]
  /\ UNCHANGED << conversation, guard, calls, held, chat, build, keysConfigured, conn, cred, welcomed, emitted, nextId >>

\* processWithAI resumes when generateContent settles; handleVoiceCall answers
VoiceCallGenerateReturn(r, o) ==
  /\ run[r].type = "call"
  /\ run[r].pc = "generating"
  /\ IF o.error THEN
          /\ run' = [run EXCEPT ![r] = Refused([@ EXCEPT !.llmResult = LlmResult(o)], 500,
                                               "generation")]
          /\ UNCHANGED conversationHistory
     ELSE
          /\ conversationHistory' =
               KeepLast(conversationHistory \o << Msg("assistant", FreeAiResponse(o)) >>)
          /\ run' = [run EXCEPT ![r] =
                       [Succeeded([@ EXCEPT !.llmResult = LlmResult(o)])
                          EXCEPT !.status = 200,
                                 !.res = CallResponse(run[r].userText, FreeAiResponse(o))]]
  /\ UNCHANGED << conversation, guard, calls, held, chat, build, keysConfigured, conn, cred, welcomed, emitted, nextId >>

\* POST /api/voice/transcribe: handleTranscribe up to the provider call
handleTranscribe(d) ==
  /\ nextId <= MaxRuns
  /\ nextId' = nextId + 1
  /\ LET r == nextId
         rec == NewRun(0, "transcribe")
     IN
     IF ~d.present THEN
          run' = [run EXCEPT ![r] = Refused(rec, 400, "validation")]
     ELSE IF ~keysConfigured THEN
          run' = [run EXCEPT ![r] = Refused(rec, 500, "service")]
     ELSE IF build = "gemini" /\ d.bytes < MinAudioBytes THEN
          run' = [run EXCEPT ![r] = Refused(rec, 500, "transcription")]
     ELSE
          run' = [run EXCEPT ![r] = [rec EXCEPT !.pc = "transcribing", !.stt = TRUE,
                                                !.audio = d]]
  /\ UNCHANGED << conversation, guard, calls, held, chat, build, keysConfigured, conversationHistory, conn, cred, welcomed,
                  emitted >>

\* transcribeAudio resumes when transcribeFile settles; handleTranscribe answers
TranscribeReturn(r, o) ==
  /\ run[r].type = "transcribe"
  /\ run[r].pc = "transcribing"
  /\ LET rejected == IF build = "gemini" THEN GeminiTranscriptRejected(o)
                                         ELSE FreeTranscriptRejected(o)
         text == IF build = "gemini" THEN trim(o.transcript) ELSE o.transcript
     IN
     IF rejected THEN
          run' = [run EXCEPT ![r] = Refused([@ EXCEPT !.sttError = o.error], 500,
                                            "transcription")]
     ELSE
          run' = [run EXCEPT ![r] =
                    [Succeeded([@ EXCEPT !.userText = text])
                       EXCEPT !.status = 200, !.res = TranscribeResponse(text)]]
  /\ UNCHANGED << conversation, guard, calls, held, chat, build, keysConfigured, conversationHistory, conn, cred, welcomed,
                  emitted, nextId >>

\* The requests of the HTTP surface, no socket connected.
HttpNext ==
  \/ \E d \in AudioInputs : handleVoiceCall(d)
  \/ \E r \in 1..MaxRuns : \E o \in SttOutcomes(r) : VoiceCallTranscribeReturn(r, o)
  \/ \E r \in 1..MaxRuns : \E o \in LlmOutcomes(r) : VoiceCallGenerateReturn(r, o)
  \/ \E d \in AudioInputs : handleTranscribe(d)
  \/ \E r \in 1..MaxRuns : \E o \in SttOutcomes(r) : TranscribeReturn(r, o)
  \/ handleClearHistory

HttpSpec == Init /\ [][HttpNext]_vars

\* ==== chat endpoint: part_007 (chatRoutes.ts) ====
\* A chat message is a sequence of characters.
MaxOperand == 10     \* operands of the expressions in chat messages: 0..MaxOperand

DigitChars == << "0", "1", "2", "3", "4", "5", "6", "7", "8", "9" >>
IsDigit(c) == \E k \in 1..10 : DigitChars[k] = c              \* \d
IsSpace(c) == c = " "                                         \* \s
Operators == {"+", "-", "*", "/"}                             \* [\+\-\*\/]
DigitVal(c) == (CHOOSE k \in 1..10 : DigitChars[k] = c) - 1

\* String(n) for n >= 0
RECURSIVE ToDigits(_)
ToDigits(n) ==
  IF n < 10 THEN << DigitChars[n + 1] >>
  ELSE ToDigits(n \div 10) \o << DigitChars[(n % 10) + 1] >>

\* parseInt of a string of digits
RECURSIVE parseInt(_)
parseInt(ds) ==
  IF ds = << >> THEN 0
  ELSE parseInt(SubSeq(ds, 1, Len(ds) - 1)) * 10 + DigitVal(ds[Len(ds)])

\* message.toLowerCase(), for the one capital letter of the messages
ToLower(m) == [i \in 1..Len(m) |-> IF m[i] = "H" THEN "h" ELSE m[i]]

\* s.includes(sub)
includes(s, sub) ==
  \E i \in 1..(Len(s) - Len(sub) + 1) : SubSeq(s, i, i + Len(sub) - 1) = sub

\* Index of the last character of the longest run of digits (of blanks) of s
\* that starts at i; i - 1 when there is none.
DigitsEnd(s, i) ==
  CHOOSE j \in (i - 1)..Len(s) :
    /\ \A k \in i..j : IsDigit(s[k])
    /\ j = Len(s) \/ ~IsDigit(s[j + 1])
SpacesEnd(s, i) ==
  CHOOSE j \in (i - 1)..Len(s) :
    /\ \A k \in i..j : IsSpace(s[k])
    /\ j = Len(s) \/ ~IsSpace(s[j + 1])

NoMatch == [ok |-> FALSE, a |-> << >>, op |-> "", b |-> << >>]

\* The match of \d+ (\s*) [\+\-\*\/] (\s*) \d+ that starts at i, the \s*
\* present in the pattern or not; the quantifiers are greedy.
MatchAt(s, i, spaces) ==
  LET e1 == DigitsEnd(s, i)
      o == (IF spaces THEN SpacesEnd(s, e1 + 1) ELSE e1) + 1
      d2 == (IF spaces THEN SpacesEnd(s, o + 1) ELSE o) + 1
      e2 == DigitsEnd(s, d2)
  IN IF /\ i <= Len(s) /\ e1 >= i
        /\ o <= Len(s) /\ s[o] \in Operators
        /\ d2 <= Len(s) /\ e2 >= d2
       THEN [ok |-> TRUE, a |-> SubSeq(s, i, e1), op |-> s[o], b |-> SubSeq(s, d2, e2)]
       ELSE NoMatch

\* s.match(re): the leftmost match
match(s, spaces) ==
  IF \E i \in 1..Len(s) : MatchAt(s, i, spaces).ok
    THEN MatchAt(s, CHOOSE i \in 1..Len(s) :
                      /\ MatchAt(s, i, spaces).ok
                      /\ \A j \in 1..(i - 1) : ~MatchAt(s, j, spaces).ok,
                 spaces)
    ELSE NoMatch

WhatIs == << "w", "h", "a", "t", " ", "i", "s", " " >>
\* lower.match(/what is \d+[\+\-\*\/]\d+/)
matchWhatIs(s) ==
  \E i \in 1..(Len(s) - Len(WhatIs) + 1) :
    /\ SubSeq(s, i, i + Len(WhatIs) - 1) = WhatIs
    /\ MatchAt(s, i + Len(WhatIs), FALSE).ok

\* The switch on the operator; a quotient is the pair of its operands.
Answer(num1, operator, num2) ==
  CASE operator = "+" -> Reply("answer", num1 + num2, 1)
    [] operator = "-" -> Reply("answer", num1 - num2, 1)
    [] operator = "*" -> Reply("answer", num1 * num2, 1)
    [] operator = "/" -> IF num2 # 0 THEN Reply("answer", num1, num2)
                                    ELSE Canned("answer: Error: Division by zero")

getFallbackResponse(message) ==
  LET lower == ToLower(message) IN
  IF includes(lower, << "h", "e", "l", "l", "o" >>) \/ includes(lower, << "h", "i" >>)
    THEN Canned("hello")
  ELSE IF includes(lower, << "h", "o", "w", " ", "a", "r", "e", " ", "y", "o", "u" >>)
    THEN Canned("doing well")
  ELSE IF \/ includes(lower, WhatIs \o << "y", "o", "u", "r", " ", "n", "a", "m", "e" >>)
          \/ includes(lower, << "w", "h", "o", " ", "a", "r", "e", " ", "y", "o", "u" >>)
    THEN Canned("assistant")
  ELSE IF includes(lower, << "h", "e", "l", "p" >>) THEN Canned("help")
  ELSE IF includes(lower, << "t", "h", "a", "n", "k" >>) THEN Canned("welcome")
  ELSE IF \/ includes(lower, << "b", "y", "e" >>)
          \/ includes(lower, << "g", "o", "o", "d", "b", "y", "e" >>)
    THEN Canned("goodbye")
  ELSE IF (matchWhatIs(lower) \/ match(lower, FALSE).ok) /\ match(message, TRUE).ok
    THEN LET m == match(message, TRUE)
         IN Answer(parseInt(m.a), m.op, parseInt(m.b))
  ELSE Canned("received")

\* What precedes and follows the expression in a message.
Leads ==
  {<< >>, WhatIs, << "H", "i", " " >>, << "t", "h", "i", "s", " " >>,
   << "h", "e", "l", "p", " " >>}
Tails == {<< >>, << "?" >>, << " ", "t", "h", "a", "n", "k", "s" >>}
Gaps == {<< >>, << " " >>}
Operands == 0..MaxOperand

Expression(a, op, b, gap) == ToDigits(a) \o gap \o << op >> \o gap \o ToDigits(b)
Messages ==
  {<< " " >>} \cup {l \o t : l \in Leads, t \in Tails}
  \cup {l \o Expression(a, op, b, g) \o t :
          l \in Leads, a \in Operands, op \in Operators, b \in Operands,
          g \in Gaps, t \in Tails}

\* What model.generateContent does: a text, an empty text, or a throw with
\* status 429, with status 401 or 403, with 'quota', with 'SAFETY', or another.
ChatOutcomes == {"text", "empty", "429", "auth", "quota", "safety", "error"}

\* The state in which the chat endpoint is called with a message.
ChatInit ==
  /\ build = "gemini"
  /\ keysConfigured = FALSE
  /\ conversationHistory = << >>
  /\ conn = [s \in Sockets |-> "new"]
  /\ cred = [s \in Sockets |-> "none"]
  /\ welcomed = [s \in Sockets |-> FALSE]
  /\ emitted = [r \in 1..MaxRuns |-> << >>]
  /\ run = [r \in 1..MaxRuns |-> IdleRun]
  /\ nextId = 1
  /\ held = NoHeld
  /\ calls = NoCalls
  /\ guard = IdleGuard
  /\ conversation = NoPosts
  /\ \E m \in Messages, k \in BOOLEAN :
       chat = [IdleChat EXCEPT !.message = m, !.geminiKey = k]

\* !message.trim(): a message of white space only
Blank(m) == \A i \in 1..Len(m) : IsSpace(m[i])

\* router.post('/') up to getAIResponse: 400 for an empty or blank message,
\* 500 when Conversation.findOne rejects
post(found) ==
  /\ chat.pc = "idle"
  /\ chat' = IF chat.message = << >> \/ Blank(chat.message)
               THEN [chat EXCEPT !.pc = "responded", !.code = 400]
             ELSE IF ~found
               THEN [chat EXCEPT !.pc = "responded", !.saved = FALSE, !.code = 500]
               ELSE [chat EXCEPT !.pc = "called"]
  /\ UNCHANGED << conversation, guard, calls, held, build, keysConfigured, conversationHistory, conn, cred, welcomed,
                  emitted, run, nextId >>

\* getAIResponse up to model.generateContent: without a key, the fallback
getAIResponse ==
  /\ chat.pc = "called"
  /\ chat' = IF chat.geminiKey
               THEN [chat EXCEPT !.pc = "generating"]
               ELSE [chat EXCEPT !.pc = "done", !.fallback = TRUE,
                                 !.reply = getFallbackResponse(chat.message)]
  /\ UNCHANGED << conversation, guard, calls, held, build, keysConfigured, conversationHistory, conn, cred, welcomed,
                  emitted, run, nextId >>

\* a getAIResponse that rethrows what it has no canned message for, which
\* the handler answers with 500
getAIResponseReturnRethrows(o) ==
  /\ chat.pc = "generating"
  /\ chat' =
       CASE o = "text" -> [chat EXCEPT !.pc = "done", !.outcome = o, !.reply = Canned("gemini")]
         [] o = "empty" -> [chat EXCEPT !.pc = "done", !.outcome = o, !.reply = Canned("sorry")]
         [] o = "429" -> [chat EXCEPT !.pc = "done", !.outcome = o, !.reply = Canned("high demand")]
         [] o = "auth" -> [chat EXCEPT !.pc = "done", !.outcome = o, !.reply = Canned("key error")]
         [] o = "quota" -> [chat EXCEPT !.pc = "done", !.outcome = o, !.reply = Canned("quota")]
         [] o = "safety" -> [chat EXCEPT !.pc = "done", !.outcome = o, !.reply = Canned("safety")]
         [] OTHER -> [chat EXCEPT !.pc = "responded", !.outcome = o, !.code = 500]
  /\ UNCHANGED << conversation, guard, calls, held, build, keysConfigured, conversationHistory, conn, cred, welcomed,
                  emitted, run, nextId >>

\* getAIResponse resumes when model.generateContent settles
getAIResponseReturn(o) ==
  /\ chat.pc = "generating"
  /\ chat' =
       CASE o = "text" -> [chat EXCEPT !.pc = "done", !.outcome = o, !.reply = Canned("gemini")]
         [] o = "empty" -> [chat EXCEPT !.pc = "done", !.outcome = o, !.reply = Canned("sorry")]
         [] o = "429" -> [chat EXCEPT !.pc = "done", !.outcome = o, !.reply = Canned("high demand")]
         [] o = "auth" -> [chat EXCEPT !.pc = "done", !.outcome = o, !.reply = Canned("key error")]
         [] o = "quota" -> [chat EXCEPT !.pc = "done", !.outcome = o, !.reply = Canned("quota")]
         [] o = "safety" -> [chat EXCEPT !.pc = "done", !.outcome = o, !.reply = Canned("safety")]
         [] OTHER -> [chat EXCEPT !.pc = "done", !.outcome = o, !.fallback = TRUE,
                                  !.reply = getFallbackResponse(chat.message)]
  /\ UNCHANGED << conversation, guard, calls, held, build, keysConfigured, conversationHistory, conn, cred, welcomed,
                  emitted, run, nextId >>

\* router.post('/') after getAIResponse returned: conversation.save() and
\* the response, 500 when the save rejects
postSave(saved) ==
  /\ chat.pc = "done"
  /\ chat' = [chat EXCEPT !.pc = "responded", !.saved = saved,
                          !.code = IF saved THEN 200 ELSE 500]
  /\ UNCHANGED << conversation, guard, calls, held, build, keysConfigured, conversationHistory, conn, cred, welcomed,
                  emitted, run, nextId >>

ChatNext ==
  \/ \E found \in BOOLEAN : post(found)
  \/ getAIResponse
  \/ \E o \in ChatOutcomes : getAIResponseReturn(o)
  \/ \E saved \in BOOLEAN : postSave(saved)

ChatSpec == ChatInit /\ [][ChatNext]_vars

Next ==
  \/ \E s \in Sockets : \E c \in Presents(s) : FreeHandshake(s, c)
  \/ \E s \in Sockets : \E c \in Presents(s) : GeminiHandshake(s, c)
  \/ \E s \in Speakers, d \in AudioInputs : GeminiAudioMessage(s, d)
  \/ \E r \in 1..MaxRuns : \E o \in SttOutcomes(r) : GeminiTranscribeReturn(r, o)
  \/ \E s \in Sockets : \E t \in TextInputs(nextId) : GeminiTextMessage(s, t)
  \/ \E r \in 1..MaxRuns : \E o \in LlmOutcomes(r) : GeminiGenerateReturn(r, o)
  \/ \E s \in Speakers, cmd \in Commands : GeminiControlMessage(s, cmd)
  \/ \E s \in Speakers, d \in AudioInputs : FreeAudioMessage(s, d)
  \/ \E r \in 1..MaxRuns : \E o \in SttOutcomes(r) : FreeTranscribeReturn(r, o)
  \/ \E s \in Sockets : \E t \in TextInputs(nextId) : FreeTextMessage(s, t)
  \/ \E r \in 1..MaxRuns : \E o \in LlmOutcomes(r) : FreeGenerateReturn(r, o)
  \/ \E s \in Speakers, cmd \in Commands : FreeControlMessage(s, cmd)
  \/ handleClearHistory

Spec == Init /\ [][Next]_vars

\* ---- the history store and the arrays getHistory() returns ----
\* The methods of the service as their callers use them. An exchange is
\* numbered by nextId; run[r] records an exchange of part_006 between its two
\* pushes.

\* The elements of the array the caller holds.
Returned == IF held.ref = "store" THEN conversationHistory ELSE held.elems

\* this.conversationHistory = <a new array>: a caller that holds the old array
\* keeps it, with the elements h it had at that moment.
Reassigned(h) == IF held.ref = "store" THEN [held EXCEPT !.ref = "own", !.elems = h] ELSE held

\* getHistory(): return this.conversationHistory
getHistory ==
  /\ held.ref = "none"
  /\ held' = [held EXCEPT !.ref = "store", !.first = conversationHistory]
  /\ UNCHANGED << conversation, guard, calls, chat, build, keysConfigured, conversationHistory, conn, cred, welcomed,
                  emitted, run, nextId >>

\* handleGetHistory: res.json({ history: getHistory(), count }) serialises the
\* array at once
handleGetHistory ==
  /\ ~held.sent
  /\ held' = [held EXCEPT !.sent = TRUE, !.body = conversationHistory]
  /\ UNCHANGED << conversation, guard, calls, chat, build, keysConfigured, conversationHistory, conn, cred, welcomed,
                  emitted, run, nextId >>

\* The caller of getHistory() pushes an element of its own to the array it got.
CallerMessage == Msg("user", Plain(0))
CallerPush ==
  /\ held.ref # "none" /\ ~held.pushed
  /\ Len(Returned) <= HistoryCap
  /\ IF held.ref = "store"
       THEN /\ conversationHistory' = conversationHistory \o << CallerMessage >>
            /\ held' = [held EXCEPT !.pushed = TRUE]
       ELSE /\ held' = [held EXCEPT !.pushed = TRUE, !.elems = @ \o << CallerMessage >>]
            /\ UNCHANGED conversationHistory
  /\ UNCHANGED << conversation, guard, calls, chat, build, keysConfigured, conn, cred, welcomed, emitted, run, nextId >>

\* aiVoiceService.ts generateResponse after chat.sendMessage returned a text:
\* two pushes, then this.conversationHistory = slice(-10) when longer than 10
GeminiAppend ==
  /\ build = "gemini"
  /\ nextId <= MaxRuns
  /\ nextId' = nextId + 1
  /\ LET r == nextId
         pushed == conversationHistory \o << Msg("user", Plain(r)), Msg("model", Plain(r)) >>
     IN /\ conversationHistory' = KeepLast(pushed)
        /\ held' = IF Len(pushed) > HistoryCap THEN Reassigned(pushed) ELSE held
        /\ run' = [run EXCEPT ![r] = Succeeded([NewRun(0, "text") EXCEPT !.userText = Plain(r)])]
  /\ UNCHANGED << conversation, guard, calls, chat, build, keysConfigured, conn, cred, welcomed, emitted >>

\* part_006 processWithAI up to chat.sendMessage: the user message is pushed
FreePushUser ==
  /\ build = "free"
  /\ nextId <= MaxRuns
  /\ nextId' = nextId + 1
  /\ LET r == nextId IN
       /\ conversationHistory' = conversationHistory \o << Msg("user", Plain(r)) >>
       /\ run' = [run EXCEPT ![r] = [NewRun(0, "text") EXCEPT !.pc = "generating",
                                                               !.userText = Plain(r)]]
  /\ UNCHANGED << conversation, guard, calls, held, chat, build, keysConfigured, conn, cred, welcomed, emitted >>

\* part_006 processWithAI after chat.sendMessage: the answer is pushed, then
\* this.conversationHistory = slice(-10) when longer than 10; a throw pushes nothing
FreePushAssistant(r, o) ==
  /\ build = "free"
  /\ run[r].pc = "generating"
  /\ IF o.error
       THEN /\ run' = [run EXCEPT ![r] = Failed(@, "generation")]
            /\ UNCHANGED << conversation, guard, calls, conversationHistory, held >>
       ELSE LET pushed == conversationHistory \o << Msg("assistant", FreeAiResponse(o)) >>
            IN /\ conversationHistory' = KeepLast(pushed)
               /\ held' = IF Len(pushed) > HistoryCap THEN Reassigned(pushed) ELSE held
               /\ run' = [run EXCEPT ![r] = Succeeded(@)]
  /\ UNCHANGED << conversation, guard, calls, chat, build, keysConfigured, conn, cred, welcomed, emitted, nextId >>

\* clearHistory(): this.conversationHistory = []
ClearStore ==
  /\ conversationHistory # << >>
  /\ conversationHistory' = clearHistory
  /\ held' = Reassigned(conversationHistory)
  /\ UNCHANGED << conversation, guard, calls, chat, build, keysConfigured, conn, cred, welcomed, emitted, run, nextId >>

HistoryInit == Init /\ keysConfigured
HistoryNext ==
  \/ getHistory
  \/ handleGetHistory
  \/ CallerPush
  \/ GeminiAppend
  \/ FreePushUser
  \/ \E r \in 1..MaxRuns : \E o \in LlmOutcomes(r) : FreePushAssistant(r, o)
  \/ ClearStore
HistorySpec == HistoryInit /\ [][HistoryNext]_vars

\* ---- the call controller: CallRoutes.ts, CallController ----
\* Every handler reads the call with Call.findOne, changes the document it got
\* and writes it back with call.save(); other requests run between the two.
\* The database answers every operation.

\* the voice state is not used by the other surfaces
IdleVoice ==
  /\ build = "gemini"
  /\ keysConfigured = FALSE
  /\ conversationHistory = << >>
  /\ conn = [s \in Sockets |-> "new"]
  /\ cred = [s \in Sockets |-> "none"]
  /\ welcomed = [s \in Sockets |-> FALSE]
  /\ emitted = [r \in 1..MaxRuns |-> << >>]
  /\ run = [r \in 1..MaxRuns |-> IdleRun]
  /\ nextId = 1
  /\ held = NoHeld

CallMessage(type, q, has) == [type |-> type, id |-> q, text |-> has]
Metadata(msgs) ==
  [totalMessages |-> Len(msgs),
   userMessages |-> Len(SelectSeq(msgs, LAMBDA m : m.type = "user")),
   aiMessages |-> Len(SelectSeq(msgs, LAMBDA m : m.type = "ai"))]

\* Call.findOne({ callId, userId })
findOne(c, u) ==
  IF c \in CallIds /\ calls.db[c].exists /\ calls.db[c].userId = u
    THEN calls.db[c] ELSE NoCall

\* messageSchema: text is required
Valid(doc) == \A i \in 1..Len(doc.messages) : doc.messages[i].text

\* a call.save() that writes the whole document it holds
SavedWhole(stored, loaded, doc) == doc

\* call.save() of the document doc that was loaded as loaded: mongoose writes
\* the paths that were modified, the pushed messages as a $push.
Saved(stored, loaded, doc) ==
  [stored EXCEPT
     !.status = IF doc.status # loaded.status THEN doc.status ELSE @,
     !.endTime = IF doc.endTime # loaded.endTime THEN doc.endTime ELSE @,
     !.messages = @ \o SubSeq(doc.messages, Len(loaded.messages) + 1, Len(doc.messages)),
     !.metadata = IF doc.metadata # loaded.metadata THEN doc.metadata ELSE @]

Answer404or400(rq, doc) ==
  [rq EXCEPT !.pc = "done", !.code = IF doc.exists THEN 400 ELSE 404,
             !.seen = IF doc.exists THEN doc.status ELSE "missing"]

\* startCall up to call.save(): 401 without req.user.id
startCall(u) ==
  /\ calls.next <= MaxRequests
  /\ LET q == calls.next
         rq == [NoRequest EXCEPT !.op = "start", !.user = u, !.call = 2 + q]
     IN calls' = [calls EXCEPT
                    !.next = q + 1,
                    !.req[q] = IF u = 0 THEN [rq EXCEPT !.pc = "done", !.code = 401]
                               ELSE [rq EXCEPT !.pc = "saving", !.doc = ActiveCall(u)]]
  /\ UNCHANGED << conversation, guard, held, chat, build, keysConfigured, conversationHistory, conn, cred,
                  welcomed, emitted, run, nextId >>

\* endCall, addMessage, processText, processAudio up to Call.findOne: 400 when
\* processText has no text or processAudio no file
Arrive(op, c, has) ==
  /\ calls.next <= MaxRequests
  /\ LET q == calls.next
         rq == [NoRequest EXCEPT !.op = op, !.user = Caller, !.call = c, !.has = has]
     IN calls' = [calls EXCEPT
                    !.next = q + 1,
                    !.req[q] = IF op \in {"text", "audio"} /\ ~has
                                 THEN [rq EXCEPT !.pc = "done", !.code = 400]
                                 ELSE [rq EXCEPT !.pc = "finding"]]
  /\ UNCHANGED << conversation, guard, held, chat, build, keysConfigured, conversationHistory, conn, cred,
                  welcomed, emitted, run, nextId >>

\* the handler after Call.findOne resolved, up to call.save()
Changed(rq, q, doc) ==
  CASE rq.op = "end" -> [doc EXCEPT !.status = "ended", !.endTime = q]
    [] rq.op = "add" ->
         LET msgs == doc.messages \o << CallMessage("user", q, rq.has) >>
         IN [doc EXCEPT !.messages = msgs, !.metadata = Metadata(msgs)]
    [] OTHER ->
         LET msgs == doc.messages \o << CallMessage("user", q, TRUE),
                                        CallMessage("ai", q, TRUE) >>
         IN [doc EXCEPT !.messages = msgs, !.metadata = Metadata(msgs)]

FindReturn(q) ==
  /\ calls.req[q].pc = "finding"
  /\ LET rq == calls.req[q]
         doc == findOne(rq.call, rq.user)
     IN calls' = [calls EXCEPT
                    !.req[q] = IF ~doc.exists \/ doc.status # "active"
                                 THEN Answer404or400(rq, doc)
                                 ELSE [rq EXCEPT !.pc = "saving", !.seen = "active",
                                                 !.loaded = doc,
                                                 !.doc = Changed(rq, q, doc)]]
  /\ UNCHANGED << conversation, guard, held, chat, build, keysConfigured, conversationHistory, conn, cred,
                  welcomed, emitted, run, nextId >>

\* call.save() resolved or rejected, and the response
SaveReturn(q) ==
  /\ calls.req[q].pc = "saving"
  /\ LET rq == calls.req[q]
         c == rq.call
     IN IF rq.op = "start"
          THEN calls' = [calls EXCEPT !.db[c] = rq.doc,
                                      !.req[q] = [rq EXCEPT !.pc = "done", !.code = 201]]
        ELSE IF ~Valid(rq.doc)
          THEN calls' = [calls EXCEPT !.req[q] = [rq EXCEPT !.pc = "done", !.code = 500]]
          ELSE calls' = [calls EXCEPT
                           !.db[c] = Saved(@, rq.loaded, rq.doc),
                           !.req[q] = [rq EXCEPT !.pc = "done", !.code = 200]]
  /\ UNCHANGED << conversation, guard, held, chat, build, keysConfigured, conversationHistory, conn, cred,
                  welcomed, emitted, run, nextId >>

\* The collection holds a call of the caller, active or ended, and an active
\* call of another user.
CallInit ==
  /\ IdleVoice
  /\ guard = IdleGuard
  /\ conversation = NoPosts
  /\ chat = IdleChat
  /\ \E st \in {"active", "ended"} :
       calls = [NoCalls EXCEPT !.db[OwnCall] = [ActiveCall(Caller) EXCEPT !.status = st],
                               !.db[OtherCall] = ActiveCall(Stranger)]
CallNext ==
  \/ \E u \in {0, Caller} : startCall(u)
  \/ \E op \in {"end", "add", "text", "audio"}, c \in {OwnCall, OtherCall, 3} :
       \E has \in (IF op = "end" THEN {TRUE} ELSE BOOLEAN) : Arrive(op, c, has)
  \/ \E q \in 1..MaxRequests : FindReturn(q)
  \/ \E q \in 1..MaxRequests : SaveReturn(q)
CallSpec == CallInit /\ [][CallNext]_vars

\* ---- authMiddleware.protect ----
\* JWT_SECRET signs the tokens; a token names the user it was issued to.
UserIds == {1, 2}
Tokens ==
  {NoToken} \cup [signed : BOOLEAN, expired : BOOLEAN, id : UserIds]
\* The Authorization header as split(' ') cuts it: absent, or a first word
\* followed by no word, by a token, or by an empty word and a token (two
\* blanks). NoToken stands for the empty or missing word.
Schemes == {"Bearer", "Basic", "BearerToken"}
Authorizations ==
  {<< >>} \cup {<< sc >> : sc \in Schemes}
  \cup {<< sc, t >> : sc \in Schemes, t \in Tokens \ {NoToken}}
  \cup {<< sc, NoToken, t >> : sc \in Schemes, t \in Tokens \ {NoToken}}

\* req.headers.authorization && req.headers.authorization.startsWith('Bearer')
startsWithBearer(h) == h # << >> /\ h[1] \in {"Bearer", "BearerToken"}
\* req.headers.authorization.split(' ')[1]
SecondWord(h) == IF Len(h) >= 2 THEN h[2] ELSE NoToken

\* protect, lines 12-24: the token of the header when the header starts with
\* 'Bearer', otherwise the token of the cookie
TokenOf(h, cookie) == IF startsWithBearer(h) THEN SecondWord(h) ELSE cookie

\* a verifyToken that does not look at the expiry
verifyTokenAnyAge(t, secret) == secret /\ t.signed

\* verifyToken: jwt.verify with JWT_SECRET succeeds, otherwise it throws
verifyToken(t, secret) == secret /\ t.signed /\ ~t.expired

Respond(g, code) == [g EXCEPT !.pc = "done", !.sent = @ \o << code >>]

\* protect up to User.findById: 401 without a token or when verifyToken throws
protect(h, cookie, secret) ==
  /\ guard.pc = "idle"
  /\ LET token == TokenOf(h, cookie)
         g == [guard EXCEPT !.authorization = h, !.cookie = cookie, !.token = token,
                            !.secret = secret]
     IN guard' = IF token = NoToken THEN Respond(g, 401)
                 ELSE IF ~verifyToken(token, secret) THEN Respond(g, 401)
                 ELSE [g EXCEPT !.pc = "finding"]
  /\ UNCHANGED << conversation, calls, held, chat, build, keysConfigured, conversationHistory, conn, cred,
                  welcomed, emitted, run, nextId >>

\* protect after User.findById settled: it found the user, found none, or threw
findByIdReturn(found) ==
  /\ guard.pc = "finding"
  /\ guard' = IF found = "user"
                 THEN [guard EXCEPT !.pc = "done", !.found = found,
                                    !.user = guard.token.id, !.next = @ + 1]
                 ELSE Respond([guard EXCEPT !.found = found], 401)
  /\ UNCHANGED << conversation, calls, held, chat, build, keysConfigured, conversationHistory, conn, cred,
                  welcomed, emitted, run, nextId >>

AuthInit ==
  /\ IdleVoice
  /\ calls = NoCalls
  /\ conversation = NoPosts
  /\ chat = IdleChat
  /\ guard = IdleGuard
AuthNext ==
  \/ \E h \in Authorizations, cookie \in Tokens, secret \in BOOLEAN : protect(h, cookie, secret)
  \/ \E found \in {"user", "none", "error"} : findByIdReturn(found)
AuthSpec == AuthInit /\ [][AuthNext]_vars

\* ---- router.post('/') of the chat routes and the conversation store ----
\* The words of a message are numbered as in the voice model: q is the message
\* of request q, capitalised its reply, -i the i-th stored exchange.

\* The conversation k exchanges leave.
RECURSIVE StoredMessages(_)
StoredMessages(k) ==
  IF k = 0 THEN << >>
  ELSE StoredMessages(k - 1)
       \o << Msg("user", Plain(k - MaxStored - 1)),
             Msg("assistant", Str(k - MaxStored - 1, FALSE, TRUE)) >>

\* req.body.message: a text with or without blanks around it, '' or ' '
PostMessages(q) == {Str(q, FALSE, FALSE), Str(q, TRUE, FALSE), EmptyStr, BlankStr}

\* conversationHistory.slice(-6): the last 6 messages, the current one included
RecentHistoryWithCurrent(h) ==
  IF Len(h) > 1 THEN SubSeq(h, IF Len(h) > 6 THEN Len(h) - 5 ELSE 1, Len(h)) ELSE << >>

\* getAIResponse, lines 131-139: conversationHistory.slice(-7, -1) when the
\* history holds more than the current message
RecentHistory(h) ==
  IF Len(h) > 1 THEN SubSeq(h, IF Len(h) > 7 THEN Len(h) - 6 ELSE 1, Len(h) - 1) ELSE << >>

\* the handler from the push of the user message to the await in getAIResponse
Pushed(rq, msgs, isNew) ==
  LET h == msgs \o << Msg("user", trim(rq.message)) >>
  IN [rq EXCEPT !.pc = "generating", !.messages = h, !.loaded = Len(msgs),
                !.isNew = isNew, !.context = RecentHistory(h),
                !.prompt = RecentHistory(h) \o << Msg("User", rq.message) >>]

\* router.post('/') up to its first await: 400 for a message that is empty
\* after trim; Conversation.findOne when a conversationId was sent; otherwise
\* a new conversation, the push and getAIResponse
postArrive(m, withId) ==
  /\ conversation.next <= MaxPosts
  /\ LET q == conversation.next
         rq == [NoPost EXCEPT !.message = m, !.withId = withId]
     IN conversation' =
          [conversation EXCEPT
             !.next = q + 1,
             !.req[q] = IF Falsy(trim(m)) THEN [rq EXCEPT !.pc = "done", !.code = 400]
                        ELSE IF withId THEN [rq EXCEPT !.pc = "finding"]
                        ELSE Pushed(rq, << >>, TRUE)]
  /\ UNCHANGED << guard, calls, held, chat, build, keysConfigured, conversationHistory, conn,
                  cred, welcomed, emitted, run, nextId >>

\* Conversation.findOne settled: 500 when it rejected; otherwise the
\* conversation found, or a new one, the push and getAIResponse
postFindReturn(q, ok) ==
  /\ conversation.req[q].pc = "finding"
  /\ LET rq == conversation.req[q] IN
     conversation' =
       [conversation EXCEPT
          !.req[q] = IF ~ok THEN [rq EXCEPT !.pc = "done", !.code = 500]
                     ELSE IF conversation.exists THEN Pushed(rq, conversation.stored, FALSE)
                     ELSE Pushed(rq, << >>, TRUE)]
  /\ UNCHANGED << guard, calls, held, chat, build, keysConfigured, conversationHistory, conn,
                  cred, welcomed, emitted, run, nextId >>

\* getAIResponse returned, with the text of the provider or a reply of its
\* own: the assistant message is pushed and conversation.save() called
postReplyReturn(q) ==
  /\ conversation.req[q].pc = "generating"
  /\ LET rq == conversation.req[q]
         reply == Str(q, FALSE, TRUE)
     IN conversation' =
          [conversation EXCEPT
             !.req[q] = [rq EXCEPT !.pc = "saving", !.reply = reply,
                                   !.messages = @ \o << Msg("assistant", reply) >>]]
  /\ UNCHANGED << guard, calls, held, chat, build, keysConfigured, conversationHistory, conn,
                  cred, welcomed, emitted, run, nextId >>

\* conversation.save() settled: a new conversation is inserted, to a stored
\* one the pushed messages are added ($push); 500 when it rejected
postSaveReturn(q, ok) ==
  /\ conversation.req[q].pc = "saving"
  /\ LET rq == conversation.req[q]
         added == SubSeq(rq.messages, rq.loaded + 1, Len(rq.messages))
     IN conversation' =
          IF ~ok THEN [conversation EXCEPT !.req[q] = [rq EXCEPT !.pc = "done", !.code = 500]]
          ELSE IF rq.isNew
            THEN [conversation EXCEPT !.created[q] = rq.messages,
                                      !.req[q] = [rq EXCEPT !.pc = "done", !.code = 200]]
            ELSE [conversation EXCEPT !.stored = @ \o added,
                                      !.req[q] = [rq EXCEPT !.pc = "done", !.code = 200]]
  /\ UNCHANGED << guard, calls, held, chat, build, keysConfigured, conversationHistory, conn,
                  cred, welcomed, emitted, run, nextId >>

\* The conversation the client names does not exist, or holds up to
\* MaxStored exchanges.
PostInit ==
  /\ IdleVoice
  /\ calls = NoCalls
  /\ guard = IdleGuard
  /\ chat = IdleChat
  /\ \/ conversation = NoPosts
     \/ \E k \in {0, 1, MaxStored - 1, MaxStored} :
          conversation = [NoPosts EXCEPT !.exists = TRUE, !.stored = StoredMessages(k)]
PostNext ==
  \/ \E m \in PostMessages(conversation.next), withId \in BOOLEAN : postArrive(m, withId)
  \/ \E q \in 1..MaxPosts, ok \in BOOLEAN : postFindReturn(q, ok)
  \/ \E q \in 1..MaxPosts : postReplyReturn(q)
  \/ \E q \in 1..MaxPosts, ok \in BOOLEAN : postSaveReturn(q, ok)
PostSpec == PostInit /\ [][PostNext]_vars

\* ---- the voice:audio pipeline with providers that answer ----
\* A fresh service. Clients connect and send voice:audio messages; every await on a provider
\* settles: the promise of transcribeFile and of sendMessage resolves or rejects.
AudioNext ==
  \/ \E s \in Sockets : \E c \in Presents(s) : FreeHandshake(s, c)
  \/ \E s \in Sockets : \E c \in Presents(s) : GeminiHandshake(s, c)
  \/ \E s \in Speakers, d \in AudioInputs : GeminiAudioMessage(s, d)
  \/ \E r \in 1..MaxRuns : \E o \in SttOutcomes(r) : GeminiTranscribeReturn(r, o)
  \/ \E r \in 1..MaxRuns : \E o \in LlmOutcomes(r) : GeminiGenerateReturn(r, o)
  \/ \E s \in Speakers, d \in AudioInputs : FreeAudioMessage(s, d)
  \/ \E r \in 1..MaxRuns : \E o \in SttOutcomes(r) : FreeTranscribeReturn(r, o)
  \/ \E r \in 1..MaxRuns : \E o \in LlmOutcomes(r) : FreeGenerateReturn(r, o)
ProviderSettles(r) ==
  \/ \E o \in SttOutcomes(r) : GeminiTranscribeReturn(r, o)
  \/ \E o \in LlmOutcomes(r) : GeminiGenerateReturn(r, o)
  \/ \E o \in SttOutcomes(r) : FreeTranscribeReturn(r, o)
  \/ \E o \in LlmOutcomes(r) : FreeGenerateReturn(r, o)
AudioInit == Init /\ conversationHistory = << >>
AudioLiveSpec ==
  AudioInit /\ [][AudioNext]_vars /\ \A r \in 1..MaxRuns : WF_vars(ProviderSettles(r))

\* ---- the socket surface with clients that go away ----
\* A fresh, configured service; the clients hold a token that verifies, send
\* well-formed voice:audio and voice:text messages, and may disconnect at any
\* time.
DropInit == Init /\ keysConfigured /\ conversationHistory = << >>
\* the well-formed payloads, and a recogniser that fails or hears the utterance
DropAudio == {[present |-> TRUE, bytes |-> MinAudioBytes]}
DropStt(r) == {o \in SttOutcomes(r) : o.error \/ o.transcript = Str(r, TRUE, FALSE)}
DropNext ==
  \/ \E s \in Sockets : FreeHandshake(s, "valid")
  \/ \E s \in Sockets : GeminiHandshake(s, "valid")
  \/ \E s \in Speakers, d \in DropAudio : GeminiAudioMessage(s, d)
  \/ \E r \in 1..MaxRuns : \E o \in DropStt(r) : GeminiTranscribeReturn(r, o)
  \/ \E s \in Sockets : GeminiTextMessage(s, Plain(nextId))
  \/ \E r \in 1..MaxRuns : \E o \in LlmOutcomes(r) : GeminiGenerateReturn(r, o)
  \/ \E s \in Speakers, d \in DropAudio : FreeAudioMessage(s, d)
  \/ \E r \in 1..MaxRuns : \E o \in DropStt(r) : FreeTranscribeReturn(r, o)
  \/ \E s \in Sockets : FreeTextMessage(s, Plain(nextId))
  \/ \E r \in 1..MaxRuns : \E o \in LlmOutcomes(r) : FreeGenerateReturn(r, o)
  \/ \E s \in Sockets : Disconnect(s)
DropSpec == DropInit /\ [][DropNext]_vars

\* ==== properties ====

Runs == 1..MaxRuns
Done(r) == run[r].pc = "done"
Pipeline(r) == run[r].type \in {"audio", "text"}

Kind(e) == << e.name, e.arg >>
Kinds(log) == [i \in 1..Len(log) |-> Kind(log[i])]
Count(log, name) == Cardinality({i \in 1..Len(log) : log[i].name = name})
IsPrefix(a, b) == Len(a) <= Len(b) /\ a = SubSeq(b, 1, Len(a))

HappyPath ==
  << << "voice:status", "processing" >>, << "voice:text", "transcription" >>,
     << "voice:status", "thinking" >>, << "voice:text", "response" >>,
     << "voice:status", "complete" >> >>

\* C1: in every reachable state, also while a run is suspended on a provider
\* call, the conversation history holds at most 10 messages.
C1_HistoryAtMostCap == Len(conversationHistory) <= HistoryCap

\* C2: an audio run whose transcription and generation both succeeded has
\* emitted exactly status processing, text transcription, status thinking,
\* text response, status complete, in this order, and no other event.
C2_HappyPathEvents ==
  \A r \in Runs :
    (run[r].type = "audio" /\ Done(r) /\ run[r].outcome = "ok")
      => Kinds(emitted[r]) = HappyPath

\* C3: a pipeline run that failed at any stage has emitted exactly one
\* voice:error event.
C3_ExactlyOneError ==
  \A r \in Runs :
    (Pipeline(r) /\ Done(r) /\ run[r].outcome = "failed")
      => Count(emitted[r], "voice:error") = 1

\* C4: an audio run whose transcription failed emits no voice:text event and
\* no status complete, and the generation provider is not called for it.
C4_NoTextAfterFailedTranscription ==
  \A r \in Runs :
    (run[r].type = "audio" /\ (run[r].failedAt = "transcription" \/ run[r].sttError))
      => /\ Count(emitted[r], "voice:text") = 0
         /\ \A i \in 1..Len(emitted[r]) : Kind(emitted[r][i]) # << "voice:status", "complete" >>
         /\ ~run[r].llm
         /\ run[r].llmResult = "none"

\* C4 witness: an audio run that reached the transcription provider and failed there.
C4_Witness ==
  \E r \in Runs :
    /\ run[r].type = "audio" /\ Done(r) /\ run[r].stt
    /\ run[r].failedAt = "transcription" /\ run[r].sttError
    /\ Count(emitted[r], "voice:error") >= 1

\* C5: a run whose generation provider call failed or returned an empty
\* response leaves nothing of itself in the history: no user message is left behind.
C5_FailedGenerationLeavesNoMessage ==
  \A r \in Runs :
    (Done(r) /\ run[r].llmResult \in {"error", "empty"})
      => \A i \in 1..Len(conversationHistory) : conversationHistory[i].content.w # r
\* The step in which the generator of run r returns successfully.
Completes(r) ==
  run[r].pc = "generating" /\ run'[r].pc = "done" /\ run'[r].outcome = "ok"

\* The text of the voice:text 'response' event in a log.
ResponseText(log) ==
  LET i == CHOOSE i \in 1..Len(log) : Kind(log[i]) = << "voice:text", "response" >>
  IN log[i].text

\* h without the user message u of the current run at its end
Older(h, u) == IF h # << >> /\ h[Len(h)] = u THEN SubSeq(h, 1, Len(h) - 1) ELSE h

\* C6: a successful generation for utterance u with answer a, on a history H,
\* leaves the last 10 entries of H followed by u, a: the new history ends with
\* user u then assistant a, and the older entries survive in order, the
\* oldest evicted.
C6_AppendKeepsWindow ==
  [][\A r \in Runs :
       Completes(r) =>
         LET u == Msg("user", run[r].userText)
             a == ResponseText(emitted'[r])
             H == Older(conversationHistory, u)
             n == Len(conversationHistory')
         IN /\ 2 <= n /\ n <= HistoryCap
            /\ conversationHistory'[n - 1] = u
            /\ conversationHistory'[n] = Msg(AssistantRole(build), a)
            /\ conversationHistory' = KeepLast(H \o << u, Msg(AssistantRole(build), a) >>)
    ]_vars

\* The two messages a successful run appends.
Pair(r) ==
  << Msg("user", run[r].userText),
     Msg(AssistantRole(build), ResponseText(emitted[r])) >>

\* Every message has been handled, none was a clear request, every pipeline run succeeded.
Settled ==
  \A r \in Runs :
    /\ run[r].pc \in {"idle", "done"}
    /\ run[r].type # "clear"
    /\ Pipeline(r) => run[r].outcome = "ok"

\* C7: with two pipeline runs on the one store at the same time, the store
\* never holds more than 10 entries, and once both have appended their 2
\* messages the history is the window of: the earlier history, the two
\* messages of one run, the two messages of the other; nothing duplicated,
\* nothing dropped but by the window.
C7_TwoRunsAppend ==
  \A r1, r2 \in Runs :
    (r1 # r2 /\ Pipeline(r1) /\ Pipeline(r2) /\ run[r1].llm /\ run[r2].llm)
      => /\ Len(conversationHistory) <= HistoryCap
         /\ (Settled /\ Cardinality({r \in Runs : Pipeline(r)}) = 2)
              => \E k \in EarlierCounts :
                   \/ conversationHistory =
                        KeepLast(EarlierHistory(build, k) \o Pair(r1) \o Pair(r2))
                   \/ conversationHistory =
                        KeepLast(EarlierHistory(build, k) \o Pair(r2) \o Pair(r1))

\* C8: a connection that showed no credential or an invalid one is refused:
\* no voice:connected is sent to it and no handler ever runs for it.
C8_BadCredentialRefused ==
  \A s \in Sockets :
    (conn[s] # "new" /\ cred[s] \in {"none", "invalid"})
      => /\ ~welcomed[s]
         /\ \A r \in Runs : run[r].sock # s

\* C9: a control message start, stop, mute or unmute emits exactly one
\* voice:status event, 'muted' for mute, leaves the conversation history and
\* every run as they were, and calls no provider.
C9_ControlOnlyStatus ==
  [][(/\ nextId \in Runs
      /\ nextId' = nextId + 1
      /\ run'[nextId].type = "control"
      /\ run'[nextId].cmd \in {"start", "stop", "mute", "unmute"})
       => /\ Len(emitted'[nextId]) = 1
          /\ emitted'[nextId][1].name = "voice:status"
          /\ run'[nextId].cmd = "mute" => emitted'[nextId][1].arg = "muted"
          /\ conversationHistory' = conversationHistory
          /\ ~run'[nextId].stt /\ ~run'[nextId].llm
          /\ \A r \in Runs \ {nextId} : run'[r] = run[r] /\ emitted'[r] = emitted[r]
    ]_vars

\* C9 witness: a mute message was handled and answered with status muted.
C9_Witness ==
  \E r \in Runs :
    /\ run[r].type = "control" /\ run[r].cmd = "mute" /\ Done(r)
    /\ emitted[r] = << Status("muted") >>

\* C10: the events of an audio run, failing or not, are a prefix of the five
\* events of the successful run, optionally followed by the one error event:
\* no event twice, no stage skipped.
C10_PrefixThenError ==
  \A r \in Runs :
    run[r].type = "audio"
      => LET k == Kinds(emitted[r])
             n == Len(k)
         IN \/ IsPrefix(k, HappyPath)
            \/ /\ n >= 1
               /\ k[n] = << "voice:error", "error" >>
               /\ IsPrefix(SubSeq(k, 1, n - 1), HappyPath)

\* C11: the runs of one connection are not interleaved: once a later
\* voice:audio run on a connection has emitted an event there, an earlier
\* voice:audio run of the same connection that had begun emitting emits no
\* further event (all events of one run come before any event of the other).
C11_RunsNotInterleaved ==
  [][\A r1, r2 \in Runs :
       (/\ r1 < r2
        /\ run[r1].type = "audio" /\ run[r2].type = "audio"
        /\ run[r1].sock = run[r2].sock
        /\ emitted[r1] # << >> /\ emitted[r2] # << >>)
         => emitted'[r1] = emitted[r1]
    ]_vars

\* C12: the transcription provider is never called with a payload of fewer
\* than 1000 decoded bytes: no run waits for the provider holding one.
C12_SmallAudioNotTranscribed ==
  \A r \in Runs :
    (run[r].audio.present /\ run[r].audio.bytes < MinAudioBytes)
      => run[r].pc # "transcribing"

\* A transcript that, trimmed and in lower case, is a phrase of the denylist
\* or has fewer than 3 characters.
Denylisted(t) ==
  LET cleaned == toLowerCase(trim(t))
  IN length(cleaned) < MinTranscriptLen \/ cleaned \in hallucinations

\* C13: a denylisted or too short transcript is never the output of
\* transcribe: no audio run shows it in a voice:text event, and none calls the
\* response generator with it.
C13_DenylistedTranscriptRejected ==
  \A r \in Runs :
    run[r].type = "audio"
      => /\ run[r].llm => ~Denylisted(run[r].userText)
         /\ \A i \in 1..Len(emitted[r]) :
              Kind(emitted[r][i]) = << "voice:text", "transcription" >>
                => ~Denylisted(emitted[r][i].text)

\* Message m contains the expression a op b, written without blanks.
Holds(m, a, op, b) == includes(m, Expression(a, op, b, << >>))

\* C14: on the fallback path, the reply to a message that contains an
\* expression of two non-negative integers joined by +, -, * or / (the whole
\* numbers of the message, no division by zero) reports the value of that
\* expression: a message containing 4+5 is answered 9.
C14_FallbackAnswersArithmetic ==
  (chat.pc = "done" /\ chat.fallback)
    => \A a, b \in Operands : \A op \in Operators :
         (/\ Holds(chat.message, a, op, b)
          /\ op = "/" => b # 0
          /\ \A a2, b2 \in Operands : \A op2 \in Operators :
               Holds(chat.message, a2, op2, b2)
                 => (Len(ToDigits(a2)) <= Len(ToDigits(a)) /\ Len(ToDigits(b2)) <= Len(ToDigits(b))))
           => /\ chat.reply.kind = "answer"
              /\ op = "+" => chat.reply = Reply("answer", a + b, 1)
              /\ op = "-" => chat.reply = Reply("answer", a - b, 1)
              /\ op = "*" => chat.reply = Reply("answer", a * b, 1)
              /\ op = "/" => chat.reply.num * b = a * chat.reply.den

\* C15: clearHistory has no precondition: whenever the clear request reaches
\* the service, whatever the history holds and whichever runs are in flight,
\* the history is empty right after it.
C15_ClearEmptiesHistory ==
  [][(/\ nextId \in Runs
      /\ nextId' = nextId + 1
      /\ run'[nextId].type = "clear"
      /\ run'[nextId].status = 200)
       => conversationHistory' = << >>
    ]_vars

\* C15 witness: a clear request was served while a run waited for the
\* generation provider with its user message in the history; the history is empty.
C15_Witness ==
  \E c, r \in Runs :
    /\ run[c].type = "clear" /\ run[c].status = 200
    /\ r < c /\ run[r].pc = "generating" /\ run[r].context # << >>
    /\ conversationHistory = << >>

\* C16: a failed run leaves no failure state on the connection: after a run
\* ended with voice:error the connection is still open and its handlers take
\* the next message.
C16_ConnectionSurvivesError ==
  \A r \in Runs :
    (Pipeline(r) /\ Done(r) /\ run[r].outcome = "failed"
       /\ Count(emitted[r], "voice:error") >= 1)
      => /\ conn[run[r].sock] = "connected"
         /\ run[r].sock \in Speakers => Accepts(run[r].sock)

\* C16 witness: on one connection a run failed in the pipeline with
\* voice:error, and a later run reached status complete.
C16_Witness ==
  \E r1, r2 \in Runs :
    /\ r1 < r2 /\ run[r1].sock = run[r2].sock
    /\ Pipeline(r1) /\ Done(r1) /\ run[r1].failedAt \in {"transcription", "generation"}
    /\ Count(emitted[r1], "voice:error") >= 1
    /\ Pipeline(r2) /\ Done(r2) /\ run[r2].outcome = "ok"
    /\ emitted[r2][Len(emitted[r2])] = Status("complete")

StatusValues ==
  {"processing", "thinking", "complete", "listening", "stopped", "muted", "unmuted"}

\* The status the event contract gives for a control command.
ContractStatus(cmd) ==
  CASE cmd = "start" -> "listening"
    [] cmd = "stop" -> "stopped"
    [] cmd = "mute" -> "muted"
    [] cmd = "unmute" -> "unmuted"

\* C19: every voice:status event, of a pipeline run or of a control message,
\* recognised or not, carries one of the seven statuses of the contract, and
\* start, stop, mute, unmute are answered listening, stopped, muted, unmuted.
C19_StatusInContract ==
  \A r \in Runs :
    /\ \A i \in 1..Len(emitted[r]) :
         emitted[r][i].name = "voice:status" => emitted[r][i].arg \in StatusValues
    /\ (run[r].type = "control" /\ run[r].cmd \in {"start", "stop", "mute", "unmute"})
         => emitted[r] = << Status(ContractStatus(run[r].cmd)) >>

\* Sequence h holds message m.
HasMsg(h, m) == \E i \in 1..Len(h) : h[i] = m

\* C20: the history is shared by all connections: when a run calls the
\* generation provider, the context it sends holds the two messages of every
\* run that completed earlier on another connection (no clear request in between).
C20_ContextSharedAcrossConnections ==
  [][\A r, r0 \in Runs :
       (/\ run[r].pc # "generating" /\ run'[r].pc = "generating"
        /\ Pipeline(r0) /\ Done(r0) /\ run[r0].outcome = "ok"
        /\ run[r0].sock # run'[r].sock
        /\ \A c \in Runs : run[c].type # "clear")
         => /\ HasMsg(run'[r].context, Pair(r0)[1])
            /\ HasMsg(run'[r].context, Pair(r0)[2])
    ]_vars

\* C20 witness: a run of one connection waits for the generation provider
\* with a context that holds the messages of a completed run of the other.
C20_Witness ==
  \E r, r0 \in Runs :
    /\ run[r].pc = "generating"
    /\ Pipeline(r0) /\ Done(r0) /\ run[r0].outcome = "ok"
    /\ run[r0].sock # run[r].sock
    /\ HasMsg(run[r].context, Pair(r0)[1])
    /\ HasMsg(run[r].context, Pair(r0)[2])

Call(r) == run[r].type = "call"

C18_FailureIs4xx ==
  \A r \in Runs :
    (/\ run[r].type \in {"call", "transcribe"} /\ Done(r)
     /\ run[r].failedAt \in {"validation", "transcription", "generation"})
      => /\ run[r].status \in 400..499
         /\ run[r].res.body = "error"

\* C23: a run whose generation provider answered with an empty text fails at
\* the generation stage: it emits no voice:text response, and no placeholder
\* text is stored in the history.
C23_EmptyResponseFails ==
  /\ \A r \in Runs :
       (Pipeline(r) /\ Done(r) /\ run[r].llmResult = "empty")
         => /\ run[r].outcome = "failed" /\ run[r].failedAt = "generation"
            /\ \A i \in 1..Len(emitted[r]) :
                 Kind(emitted[r][i]) # << "voice:text", "response" >>
  /\ \A i \in 1..Len(conversationHistory) :
       conversationHistory[i].content # Plain(Apology)

\* C25: in every state the history has even length and alternates user,
\* assistant, user, assistant, ...: every user message is directly followed by
\* the assistant message of the same exchange.
C25_HistoryAlternates ==
  /\ Len(conversationHistory) % 2 = 0
  /\ \A i \in 1..Len(conversationHistory) :
       IF i % 2 = 1
         THEN conversationHistory[i].role = "user"
         ELSE /\ conversationHistory[i].role = AssistantRole(build)
              /\ conversationHistory[i].content.w \in RunWords
                   => conversationHistory[i].content.w = conversationHistory[i - 1].content.w

\* The socket of message r is disconnected.
Gone(r) == run[r].sock \in Sockets /\ conn[run[r].sock] = "disconnected"
Suspended(r) == run[r].pc \in {"transcribing", "generating"}
Last(h) == h[Len(h)]

\* C22: a disconnect changes no run and nothing of the service and leaves the
\* other connections as they are. A run suspended on a provider call whose
\* socket is gone still takes the provider's answer: nothing more is delivered
\* to its client, it fails only at a provider stage, and when it succeeds the
\* history ends with its assistant message. A run on a connection that is
\* still open delivers its status 'complete' when it succeeds.
C22_DisconnectCancelsNothing ==
  [][/\ \A s \in Sockets :
          (conn[s] = "connected" /\ conn'[s] = "disconnected")
            => /\ run' = run /\ conversationHistory' = conversationHistory
               /\ emitted' = emitted
               /\ \A t \in Sockets \ {s} : conn'[t] = conn[t]
     /\ \A r \in Runs :
          (Suspended(r) /\ run'[r] # run[r])
            => /\ Gone(r) => emitted'[r] = emitted[r]
               /\ run'[r].outcome = "failed"
                    => run'[r].failedAt \in {"transcription", "generation"}
               /\ run'[r].outcome = "ok"
                    => /\ conversationHistory' # << >>
                       /\ Last(conversationHistory').role = AssistantRole(build)
                       /\ Last(conversationHistory').content
                            \in {Plain(r), Plain(Apology)}
                       /\ ~Gone(r) => Kind(Last(emitted'[r])) = << "voice:status", "complete" >>]_vars

\* The client of message 1 went away while its run was suspended; the run
\* succeeded all the same, its answer is in the history and its completion was
\* not delivered, and a later message of another connection succeeded and
\* was told so.
C22_Witness ==
  /\ Gone(1) /\ run[1].outcome = "ok"
  /\ \A i \in 1..Len(emitted[1]) : Kind(emitted[1][i]) = << "voice:status", "processing" >>
  /\ \E i \in 1..Len(conversationHistory) : conversationHistory[i].content = Plain(1)
  /\ ~Gone(2) /\ run[2].outcome = "ok"
  /\ emitted[2] # << >>
  /\ Kind(Last(emitted[2])) = << "voice:status", "complete" >>

HasComplete(r) ==
  \E i \in 1..Len(emitted[r]) : Kind(emitted[r][i]) = << "voice:status", "complete" >>
HasError(r) == Count(emitted[r], "voice:error") > 0

\* C24: when every provider call settles, the run of every voice:audio message
\* reaches its terminal state having emitted voice:status 'complete' or
\* voice:error, and no run ever emits both; a run is transcribed before it is
\* answered, and a run that emitted 'complete' went through both stages.
C24_AudioRunTerminates ==
  /\ \A r \in Runs :
       (run[r].type = "audio") ~> (Done(r) /\ (HasComplete(r) \/ HasError(r)))
  /\ [](\A r \in Runs :
          /\ ~(HasComplete(r) /\ HasError(r))
          /\ (run[r].type = "audio" /\ run[r].llm) => run[r].stt
          /\ (run[r].type = "audio" /\ HasComplete(r)) => (run[r].stt /\ run[r].llm))

\* Two voice:audio runs have ended, one with 'complete' after both provider
\* calls and one with voice:error after its transcription failed.
C24_Witness ==
  \E r, q \in Runs :
    /\ run[r].type = "audio" /\ Done(r) /\ HasComplete(r) /\ run[r].stt /\ run[r].llm
    /\ run[q].type = "audio" /\ Done(q) /\ HasError(q) /\ run[q].failedAt = "transcription"

\* C21: the array getHistory returned holds what the store held when it was
\* returned, whatever was appended to the store or cleared from it since, as
\* long as its holder did not change it; and a change the holder makes to it
\* leaves the store as it is. The history sent by GET /history is such a copy.
C21_GetHistoryReturnsCopy ==
  /\ (held.ref # "none" /\ ~held.pushed) => Returned = held.first
  /\ held.pushed =>
       \A i \in 1..Len(conversationHistory) : conversationHistory[i] # CallerMessage

\* C26: once a call is stored as ended, its stored messages stay as they are.
C26_EndedCallGetsNoMessage ==
  [][\A c \in CallIds :
       calls.db[c].status = "ended" => calls'.db[c].messages = calls.db[c].messages]_vars

Requests == 1..MaxRequests
\* Request q takes the step from p to d.
Steps(q, p, d) == calls.req[q].pc = p /\ calls'.req[q].pc = d

\* C27: the status of a stored call changes only from active to ended and only
\* by the save of an endCall on that call; a new call is stored as active. A
\* request of endCall, addMessage, processText or processAudio whose findOne
\* does not find an active call of its user is answered 404 or 400 and
\* changes nothing in the collection.
C27_StatusOnlyActiveToEnded ==
  [][/\ \A c \in CallIds :
          calls'.db[c].status # calls.db[c].status
            => \/ /\ calls.db[c].status = "active" /\ calls'.db[c].status = "ended"
                  /\ \E q \in Requests :
                       /\ calls.req[q].op = "end" /\ calls.req[q].call = c
                       /\ Steps(q, "saving", "done")
               \/ /\ ~calls.db[c].exists /\ calls'.db[c].status = "active"
                  /\ \E q \in Requests : calls.req[q].op = "start" /\ Steps(q, "saving", "done")
     /\ \A q \in Requests :
          (/\ calls.req[q].pc = "finding" /\ calls'.req[q] # calls.req[q]
           /\ findOne(calls.req[q].call, calls.req[q].user).status # "active")
            => /\ calls'.req[q].pc = "done"
               /\ calls'.req[q].code
                    = (IF findOne(calls.req[q].call, calls.req[q].user).exists THEN 400 ELSE 404)
               /\ calls'.db = calls.db]_vars

\* A call was ended by endCall, and a later request on it was answered 400.
C27_Witness ==
  /\ calls.db[OwnCall].status = "ended" /\ calls.db[OwnCall].endTime # 0
  /\ \E q \in Requests :
       calls.req[q].call = OwnCall /\ calls.req[q].seen = "ended" /\ calls.req[q].code = 400

\* The token is signed with the configured secret and has not expired.
Verifies(t) == guard.secret /\ t.signed /\ ~t.expired
\* The tokens the request carries in its Authorization header and its cookie.
Carried ==
  ({guard.authorization[i] : i \in 2..Len(guard.authorization)} \cup {guard.cookie})
    \cap (Tokens \ {NoToken})

\* C28: protect calls next only with a token of the request that verifies and
\* names a user that exists, and then sets req.user to that user and sends
\* nothing; otherwise it sends one response, a 401 or a 500, does not call
\* next and leaves req.user unset. Before it is done it has done neither.
C28_ProtectPassesOnlyVerified ==
  /\ guard.next > 0
       => /\ guard.next = 1 /\ guard.sent = << >>
          /\ guard.token \in Carried /\ Verifies(guard.token)
          /\ guard.found = "user" /\ guard.user = guard.token.id
  /\ (guard.pc = "done" /\ guard.next = 0)
       => /\ Len(guard.sent) = 1 /\ guard.sent[1] \in {401, 500}
          /\ guard.user = 0
  /\ guard.pc # "done" => (guard.sent = << >> /\ guard.next = 0 /\ guard.user = 0)

\* A request without Authorization header was passed on for the token in its
\* cookie.
C28_Witness ==
  /\ guard.pc = "done" /\ guard.next = 1
  /\ guard.authorization = << >> /\ guard.token = guard.cookie /\ guard.user # 0

\* The replies getAIResponse has for the ways the provider call can end.
Expected(o) ==
  CASE o = "text" -> {"gemini"}
    [] o = "empty" -> {"sorry"}
    [] o = "429" -> {"high demand"}
    [] o = "auth" -> {"key error"}
    [] o = "quota" -> {"quota"}
    [] o = "safety" -> {"safety"}
    [] OTHER -> {"hello", "doing well", "assistant", "help", "welcome", "goodbye",
                 "answer", "answer: Error: Division by zero", "received"}

\* C30: for a valid message, getAIResponse returns a reply however the
\* provider call ends, or without a call when the key is missing: the canned
\* message of a rate-limit, auth, quota or safety error, the fallback response
\* otherwise; and the request is answered 500 only when the database failed.
C30_AiFailureIsAnswered ==
  /\ chat.pc = "done" => chat.reply.kind \in Expected(chat.outcome)
  /\ (chat.pc = "done" /\ chat.outcome \in {"none", "error"}) => chat.fallback
  /\ chat.pc = "responded"
       => /\ chat.code \in {200, 400, 500}
          /\ chat.code = 400 <=> (chat.message = << >> \/ Blank(chat.message))
          /\ chat.code = 500 <=> (~chat.saved /\ ~Blank(chat.message))
          /\ chat.code = 200 => chat.reply.kind \in Expected(chat.outcome)

\* The provider call failed with an error that has no canned message, the
\* fallback answered, and the request was answered 200.
C30_Witness ==
  /\ chat.pc = "responded" /\ chat.code = 200
  /\ chat.geminiKey /\ chat.outcome = "error" /\ chat.fallback
  /\ chat.reply.kind = "received"

Posts == 1..MaxPosts
\* The conversation of request q as it is stored.
ConversationOf(c, q) == IF c.req[q].isNew THEN c.created[q] ELSE c.stored
\* The last n elements of h, all of h when it has fewer.
LastN(h, n) == SubSeq(h, IF Len(h) > n THEN Len(h) - n + 1 ELSE 1, Len(h))

\* C29: the save of a POST that is answered 200 adds two messages to the
\* stored conversation, the trimmed user message and then the reply; and the
\* context of a request is the last 6, or fewer, of the messages that
\* preceded its user message in the conversation it read, in their order,
\* followed in the prompt by the message itself.
C29_PostAppendsExchange ==
  /\ [](\A q \in Posts :
          conversation.req[q].pc \in {"generating", "saving"} \/ conversation.req[q].code = 200
            => LET rq == conversation.req[q]
                   before == SubSeq(rq.messages, 1, rq.loaded)
               IN /\ rq.context = LastN(before, 6)
                  /\ Len(rq.context) <= 6
                  /\ rq.messages[rq.loaded + 1] = Msg("user", trim(rq.message))
                  /\ rq.prompt = rq.context \o << Msg("User", rq.message) >>)
  /\ [][\A q \in Posts :
          (conversation.req[q].pc = "saving" /\ conversation'.req[q].code = 200)
            => ConversationOf(conversation', q)
                 = (IF conversation.req[q].isNew THEN << >> ELSE conversation.stored)
                   \o << Msg("user", trim(conversation.req[q].message)),
                         Msg("assistant", conversation.req[q].reply) >>]_vars

\* A request with a padded message read a conversation of more than 6
\* messages and was answered 200.
C29_Witness ==
  \E q \in Posts :
    /\ conversation.req[q].code = 200 /\ conversation.req[q].message.pad
    /\ conversation.req[q].loaded > 6 /\ Len(conversation.req[q].context) = 6
====
